---- MODULE Spec2Model ----
(***************************************************************************)
(* A model of src/fixed_set.h: the two-level static perfect hash set       *)
(* FixedSet with its inner tables (InnerSet), the affine hash family       *)
(* (LinearHashFunction, GenerateLinearHashFunction) and the retry search   *)
(* GetHashFunction.                                                        *)
(*                                                                         *)
(* Scaling.  TLC computes with 32-bit integers, so the arithmetic of       *)
(* GetHash (a 64-bit product reduced modulo a 30-bit prime) is modelled    *)
(* with every width divided down: kPrime is 11 instead of 1000000021 and   *)
(* size_t is SizeBits = 12 bits wide instead of 64.  What the code relies  *)
(* on is kept: the signed product value * coefficient + bias fits the      *)
(* signed wide type (no signed overflow), it is converted to the unsigned  *)
(* type of kPrime before the % (a negative value wraps by 2^SizeBits),     *)
(* 2^SizeBits is no multiple of kPrime, and the keys range over more than  *)
(* one multiple of kPrime (an int holds 0, kPrime and 2 * kPrime).         *)
(***************************************************************************)
EXTENDS Integers, Sequences, FiniteSets

\* LinearHashFunction::kPrime and GenerateLinearHashFunction::kPrime (scaled).
kPrime == 11

\* The width of size_t (scaled): a value converted to size_t is taken
\* modulo 2^SizeBits.
SizeBits == 12

SizeMod == 2 ^ SizeBits

\* The width of int (scaled): the keys are IntMin .. IntMax.
IntBits == 6

IntMin == -(2 ^ (IntBits - 1))
IntMax == 2 ^ (IntBits - 1) - 1
IntRange == IntMin .. IntMax

\* The ceiling of the retry loop of GetHashFunction: while (cnt_run < 10).
RetryCeiling == 10

\* Bounds of the model.
NegKeys == 1      \* the small keys are -NegKeys .. PosKeys
PosKeys == 1
Multiples == 1    \* the keys kPrime, .., Multiples * kPrime are keys too
MaxInits == 2     \* Initialize is called at most MaxInits times on one table
MaxKeys == 3      \* Initialize is called with at most MaxKeys numbers
StreamLen == 3    \* the period of the generator's output
MaxDraw == 3      \* the generator's outputs are 1 .. MaxDraw

VARIABLES
    gen,            \* FixedSet::generator.gen: the engine's state (the outputs to come)
    m_hash,         \* FixedSet::m_hash
    m_data,         \* FixedSet::m_data: the InnerSet of every bucket
    m_cnt_buckets,  \* FixedSet::m_cnt_buckets
    numbers,        \* the argument of the latest Initialize
    result,         \* how the latest call ended
    searches,       \* the GetHashFunction calls of the latest Initialize, in order
    heap,           \* the HashFunction objects the latest call created and deleted
    inits,          \* the number of Initialize calls so far
    query,          \* the argument of the latest Contains
    answer          \* what the latest Contains returned

vars == <<gen, m_hash, m_data, m_cnt_buckets, numbers, result, searches, heap,
          inits, query, answer>>

----------------------------------------------------------------------------
\* Helpers

Range(s) == {s[i] : i \in 1..Len(s)}

RECURSIVE SumSeq(_)
SumSeq(s) == IF s = <<>> THEN 0 ELSE Head(s) + SumSeq(Tail(s))

\* A conversion (static_cast or usual arithmetic conversion) to size_t.
ToSizeT(x) == x % SizeMod

\* std::optional<int>: empty, or holding a value.
NullOpt == <<>>
Some(v) == <<v>>

\* HashFunction*: nullptr, a pointer to a live object, or a pointer to a
\* deleted object (dangling).  coef and bias are the pointee's fields.
NullPtr == [ptr |-> "null", coef |-> 0, bias |-> 0]

----------------------------------------------------------------------------
\* LinearHashFunction::GetHash.  The long long value * m_coefficien + m_bias
\* is converted to size_t (the type of kPrime) before the %.
GetHash(hash, value) ==
    ToSizeT(ToSizeT(1 * value * hash.coef + hash.bias) % kPrime)

\* std::mt19937 with std::uniform_int_distribution<int>(1, kPrime): the next
\* output and the engine's state after it.
Draw(g) == [value |-> Head(g), gen |-> Tail(g) \o <<Head(g)>>]

\* GenerateLinearHashFunction::Generate: new LinearHashFunction(coefficien, bias).
Generate(g) ==
    LET d1 == Draw(g)
        coefficien == (ToSizeT(d1.value) % (kPrime - 1)) + 1
        d2 == Draw(d1.gen)
        bias == ToSizeT(d2.value) % kPrime
    IN  [hash |-> [ptr |-> "live", coef |-> coefficien, bias |-> bias],
         gen |-> d2.gen]

\* The occupancy counts of GetHashFunction:
\* lens[hash->GetHash(v) % cnt_buckets] += 1 for every v of numbers.
Lens(hash, nums, cnt_buckets) ==
    [i \in 1..cnt_buckets |->
        Cardinality({j \in 1..Len(nums) :
                        GetHash(hash, nums[j]) % cnt_buckets = i - 1})]

\* Faulty variants of the two lambdas: a linear sum at the top level, and a
\* collision test that lets two keys share a slot.
FunSquareLinear == [value \in Nat |-> value]
FunCollisionOffByOne == [value \in Nat |-> IF value <= 2 THEN 0 ELSE value]

\* The two lambdas passed as fun (std::function<size_t(int)>), as functions.
FunSquare == [value \in Nat |-> value * value]
FunCollision == [value \in Nat |-> IF value <= 1 THEN 0 ELSE value]

\* hu of a candidate: the sum of fun over the occupancy counts.
Hu(hash, nums, cnt_buckets, fun) ==
    LET lens == Lens(hash, nums, cnt_buckets)
    IN  SumSeq([i \in 1..cnt_buckets |-> fun[lens[i]]])

\* Faulty variant of GetHashFunction: the loop runs while cnt_run <= RetryCeiling.
GetHashFunctionOneMore(cnt_buckets, nums, fun, criteria, generator) ==
    LET RECURSIVE loop(_, _, _)
        loop(cnt_run, g, tried) ==
            IF cnt_run <= RetryCeiling
            THEN LET c == Generate(g)
                     hu == Hu(c.hash, nums, cnt_buckets, fun)
                 IN  IF hu <= criteria
                     THEN [thrown |-> FALSE, hash |-> c.hash, gen |-> c.gen,
                           cnt_run |-> cnt_run + 1,
                           tried |-> Append(tried, c.hash)]
                     ELSE loop(cnt_run + 1, c.gen, Append(tried, c.hash))
            ELSE [thrown |-> TRUE, hash |-> NullPtr, gen |-> g,
                  cnt_run |-> cnt_run, tried |-> tried]
    IN  loop(0, generator, <<>>)

\* FixedSet::GetHashFunction.  The result records whether the call threw
\* BadHashFunctionException, the hash returned, the engine's state after
\* the call, cnt_run, and the candidates generated (tried), in order.
GetHashFunction(cnt_buckets, nums, fun, criteria, generator) ==
    LET RECURSIVE loop(_, _, _)
        loop(cnt_run, g, tried) ==
            IF cnt_run < RetryCeiling
            THEN LET c == Generate(g)
                     hu == Hu(c.hash, nums, cnt_buckets, fun)
                 IN  IF hu <= criteria
                     THEN [thrown |-> FALSE, hash |-> c.hash, gen |-> c.gen,
                           cnt_run |-> cnt_run + 1,
                           tried |-> Append(tried, c.hash)]
                     ELSE loop(cnt_run + 1, c.gen, Append(tried, c.hash))
            ELSE [thrown |-> TRUE, hash |-> NullPtr, gen |-> g,
                  cnt_run |-> cnt_run, tried |-> tried]
    IN  loop(0, generator, <<>>)

\* Faulty variant of Split: every key goes to the bucket after its own.
SplitShifted(nums, hash, cnt_buckets) ==
    [i \in 1..cnt_buckets |->
        SelectSeq(nums, LAMBDA v : (GetHash(hash, v) + 1) % cnt_buckets = i - 1)]

\* FixedSet::Split: the numbers of every bucket, in the order of numbers.
Split(nums, hash, cnt_buckets) ==
    [i \in 1..cnt_buckets |->
        SelectSeq(nums, LAMBDA v : GetHash(hash, v) % cnt_buckets = i - 1)]

\* FixedSet::InnerSet::Split: buckets[index].emplace(v) for every v, in order.
RECURSIVE InnerSplitFrom(_, _, _, _)
InnerSplitFrom(buckets, nums, hash, cnt_buckets) ==
    IF nums = <<>> THEN buckets
    ELSE LET v == Head(nums)
             index == GetHash(hash, v) % cnt_buckets
         IN  InnerSplitFrom([buckets EXCEPT ![index + 1] = Some(v)],
                            Tail(nums), hash, cnt_buckets)

InnerSplit(nums, hash, cnt_buckets) ==
    InnerSplitFrom([i \in 1..cnt_buckets |-> NullOpt], nums, hash, cnt_buckets)

----------------------------------------------------------------------------
\* InnerSet

\* InnerSet::InnerSet(generator): m_hash(nullptr); m_data is empty and
\* m_cnt_buckets is not initialized (Initialize assigns it before any use).
NewInnerSet == [m_hash |-> NullPtr, m_data |-> <<>>, m_cnt_buckets |-> 0]

\* A GetHashFunction call as the searches of a call record it: its
\* arguments and its result s.
SearchRecord(level, cnt_buckets, nums, criteria, s) ==
    [level |-> level, cnt_buckets |-> cnt_buckets, numbers |-> nums,
     criteria |-> criteria, thrown |-> s.thrown, hash |-> s.hash,
     cnt_run |-> s.cnt_run, tried |-> s.tried]

\* Faulty variant of InnerAssign: the exception of GetHashFunction is swallowed and
\* the InnerSet is left as constructed.
InnerAssignSwallows(nums, cnt_buckets, s) ==
    [thrown |-> FALSE, gen |-> s.gen,
     search |-> SearchRecord("inner", cnt_buckets, nums, 0, s),
     set |-> IF s.thrown
             THEN [NewInnerSet EXCEPT !.m_cnt_buckets = cnt_buckets]
             ELSE [m_hash |-> s.hash,
                   m_data |-> InnerSplit(nums, s.hash, cnt_buckets),
                   m_cnt_buckets |-> cnt_buckets]]

\* FixedSet::InnerSet::Initialize after its GetHashFunction call ended as s:
\* m_data = Split(numbers, m_hash, m_cnt_buckets) when it returned; when it
\* threw, m_hash and m_data keep the values of the constructor.
InnerAssign(nums, cnt_buckets, s) ==
    [thrown |-> s.thrown, gen |-> s.gen,
     search |-> SearchRecord("inner", cnt_buckets, nums, 0, s),
     set |-> IF s.thrown
             THEN [NewInnerSet EXCEPT !.m_cnt_buckets = cnt_buckets]
             ELSE [m_hash |-> s.hash,
                   m_data |-> InnerSplit(nums, s.hash, cnt_buckets),
                   m_cnt_buckets |-> cnt_buckets]]

\* Faulty variant of InnerInitialize: m_cnt_buckets = cnt_number * cnt_number.
InnerInitializeNoSlot(nums, generator) ==
    LET cnt_number == Len(nums)
        cnt_buckets == ToSizeT(cnt_number * cnt_number)
    IN  InnerAssign(nums, cnt_buckets,
                    GetHashFunction(cnt_buckets, nums, FunCollision, 0, generator))

\* FixedSet::InnerSet::Initialize on a freshly constructed InnerSet (delete
\* m_hash deletes nullptr).
InnerInitialize(nums, generator) ==
    LET cnt_number == Len(nums)
        cnt_buckets == ToSizeT(cnt_number * cnt_number + 1)
    IN  InnerAssign(nums, cnt_buckets,
                    GetHashFunction(cnt_buckets, nums, FunCollision, 0, generator))

\* The outcome of a call that reads the table: a value, or the fault that
\* stops it (a failed assert, an index outside the vector, a pointer that
\* is null or dangling).
Returned(v) == [fault |-> "none", value |-> v]
Fault(f) == [fault |-> f, value |-> FALSE]

\* Faulty variant of InnerSet::Contains: an occupied slot answers true.
InnerContainsNoCompare(set, number) ==
    IF set.m_cnt_buckets = 0 THEN Fault("assert")
    ELSE IF set.m_hash.ptr # "live" THEN Fault("pointer")
    ELSE LET index == GetHash(set.m_hash, number) % set.m_cnt_buckets
         IN  IF index + 1 \notin DOMAIN set.m_data THEN Fault("index")
             ELSE Returned(set.m_data[index + 1] # NullOpt)

\* FixedSet::InnerSet::Contains.
InnerContains(set, number) ==
    IF set.m_cnt_buckets = 0 THEN Fault("assert")
    ELSE IF set.m_hash.ptr # "live" THEN Fault("pointer")
    ELSE LET index == GetHash(set.m_hash, number) % set.m_cnt_buckets
         IN  IF index + 1 \notin DOMAIN set.m_data THEN Fault("index")
             ELSE IF set.m_data[index + 1] # NullOpt
                  THEN Returned(set.m_data[index + 1][1] = number)
                  ELSE Returned(FALSE)

\* FixedSet::InitBuckets: an InnerSet is appended and initialized for every
\* bucket, in order (r is what the Initialize of bucket i did).  When an
\* Initialize throws, the InnerSets built so far are destroyed with the
\* local vector (deleted counts their hash objects).
InitBuckets(buckets, generator) ==
    LET RECURSIVE loop(_, _, _, _)
        RECURSIVE body(_, _, _, _)
        loop(i, data, g, calls) ==
            IF i > Len(buckets)
            THEN [thrown |-> FALSE, data |-> data, gen |-> g, searches |-> calls,
                  deleted |-> 0]
            ELSE body(i, data, calls, InnerInitialize(buckets[i], g))
        body(i, data, calls, r) ==
            IF r.thrown
            THEN [thrown |-> TRUE, data |-> <<>>, gen |-> r.gen,
                  searches |-> Append(calls, r.search), deleted |-> Len(data)]
            ELSE loop(i + 1, Append(data, r.set), r.gen, Append(calls, r.search))
    IN  loop(1, <<>>, generator, <<>>)

----------------------------------------------------------------------------
\* FixedSet

\* The keys Initialize is called with: the small keys and the first
\* multiples of kPrime (keys every member of the family maps together).
Keys == (-NegKeys .. PosKeys) \cup {k * kPrime : k \in 1..Multiples}

\* The arguments of Initialize: the sequences of at most MaxKeys distinct
\* keys, in increasing or in decreasing order.
Inputs ==
    {s \in UNION {[1..n -> Keys] : n \in 0..MaxKeys} :
        \/ \A i, j \in 1..Len(s) : i < j => s[i] < s[j]
        \/ \A i, j \in 1..Len(s) : i < j => s[i] > s[j]}

\* The arguments of Contains.
Queries == Keys \cup {IntMin, IntMax}

\* The seeds of the engine: gen(std::random_device()()).
Seeds == [1..StreamLen -> 1..MaxDraw]

NoQuery == <<>>
NoAnswer == Fault("none")

\* The number of live hash objects the table owns.
Owned(hash, data) ==
    (IF hash.ptr = "live" THEN 1 ELSE 0)
    + Cardinality({i \in 1..Len(data) : data[i].m_hash.ptr = "live"})

\* delete p: the pointer afterwards (it keeps its value, the object is gone).
Deleted(p) == IF p.ptr = "null" THEN p ELSE [p EXCEPT !.ptr = "dangling"]

\* FixedSet::FixedSet(): m_hash(nullptr), m_cnt_buckets(0), a seeded generator.
Init ==
    /\ gen \in Seeds
    /\ m_hash = NullPtr
    /\ m_data = <<>>
    /\ m_cnt_buckets = 0
    /\ numbers = <<>>
    /\ result = "none"
    /\ searches = <<>>
    /\ heap = [created |-> 0, deleted |-> 0, twice |-> 0, before |-> 0]
    /\ inits = 0
    /\ query = NoQuery
    /\ answer = NoAnswer

\* The program runs on: the object is not destroyed and nothing aborted it.
Running == result \notin {"destroyed", "abort"}

\* A call of Initialize or of the destructor on a table whose m_hash is
\* dangling: its first statement, delete m_hash, deletes a deleted object,
\* which is undefined.  Either the run aborts there (the allocator detects
\* it), which is this action, or the call goes on (Initialize, Destroy).
DoubleDeleteAborts ==
    /\ Running
    /\ m_hash.ptr = "dangling"
    /\ result' = "abort"
    /\ heap' = [created |-> 0, deleted |-> 0, twice |-> 1,
                before |-> Owned(m_hash, m_data)]
    /\ UNCHANGED <<gen, m_hash, m_data, m_cnt_buckets, numbers, searches,
                   inits, query, answer>>

\* The hash objects a call created: cnt_run of every GetHashFunction call.
Created(calls) == SumSeq([i \in 1..Len(calls) |-> calls[i].cnt_run])

\* What delete m_hash at the start of Initialize does to the heap.
DeleteHash ==
    [created |-> 0,
     deleted |-> IF m_hash.ptr = "live" THEN 1 ELSE 0,
     twice |-> IF m_hash.ptr = "dangling" THEN 1 ELSE 0,
     before |-> Owned(m_hash, m_data)]

\* Faulty variant of AssignData: the new InnerSets are appended to m_data.
AssignDataAppends(top, s, b) ==
    [m_hash |-> s.hash,
     m_data |-> IF b.thrown THEN m_data ELSE m_data \o b.data,
     m_cnt_buckets |-> top.cnt_buckets,
     gen |-> b.gen,
     result |-> IF b.thrown THEN "BadHashFunction" ELSE "ok",
     searches |-> <<top>> \o b.searches,
     heap |-> [DeleteHash EXCEPT
                 !.created = Created(<<top>> \o b.searches),
                 !.deleted = @ + (IF b.thrown THEN b.deleted ELSE 0)]]

\* FixedSet::Initialize after InitBuckets ended as b: when it returned,
\* m_data is assigned (the InnerSets it held are destroyed); when it threw,
\* m_data keeps its value.
AssignData(top, s, b) ==
    [m_hash |-> s.hash,
     m_data |-> IF b.thrown THEN m_data ELSE b.data,
     m_cnt_buckets |-> top.cnt_buckets,
     gen |-> b.gen,
     result |-> IF b.thrown THEN "BadHashFunction" ELSE "ok",
     searches |-> <<top>> \o b.searches,
     heap |-> [DeleteHash EXCEPT
                 !.created = Created(<<top>> \o b.searches),
                 !.deleted = @ + (IF b.thrown THEN b.deleted
                                  ELSE Owned(NullPtr, m_data))]]

\* FixedSet::Initialize after the top-level GetHashFunction call ended as s:
\* when it threw, m_hash is left deleted and m_data is not touched.
AssignHash(nums, cnt_buckets, s) ==
    IF s.thrown
    THEN [m_hash |-> Deleted(m_hash), m_data |-> m_data,
          m_cnt_buckets |-> cnt_buckets, gen |-> s.gen,
          result |-> "BadHashFunction",
          searches |-> <<SearchRecord("top", cnt_buckets, nums, 2 * Len(nums), s)>>,
          heap |-> [DeleteHash EXCEPT !.created = s.cnt_run]]
    ELSE AssignData(SearchRecord("top", cnt_buckets, nums, 2 * Len(nums), s), s,
                    InitBuckets(Split(nums, s.hash, cnt_buckets), s.gen))

\* FixedSet::Initialize(numbers), the whole call, as the values it leaves:
\* either it returns (result "ok") or BadHashFunctionException leaves it
\* (result "BadHashFunction") with the members assigned so far.
InitializeCall(nums) ==
    LET cnt_number == Len(nums)
        cnt_buckets == ToSizeT(cnt_number + 1)
    IN  AssignHash(nums, cnt_buckets,
                   GetHashFunction(cnt_buckets, nums, FunSquare,
                                   2 * cnt_number, gen))

Initialize(nums) ==
    /\ Running
    /\ inits < MaxInits
    /\ inits' = inits + 1
    /\ \E r \in {InitializeCall(nums)} :
          /\ m_hash' = r.m_hash
          /\ m_data' = r.m_data
          /\ m_cnt_buckets' = r.m_cnt_buckets
          /\ gen' = r.gen
          /\ result' = r.result
          /\ searches' = r.searches
          /\ heap' = r.heap
    /\ numbers' = nums
    /\ query' = NoQuery
    /\ answer' = NoAnswer

\* FixedSet::Contains, as a function of the table.
TableContains(hash, data, cnt_buckets, number) ==
    IF cnt_buckets = 0 THEN Fault("assert")
    ELSE IF hash.ptr # "live" THEN Fault("pointer")
    ELSE LET first == GetHash(hash, number) % cnt_buckets
         IN  IF first + 1 \notin DOMAIN data THEN Fault("index")
             ELSE InnerContains(data[first + 1], number)

\* FixedSet::Contains(number), called after an Initialize that returned.
Contains(number) ==
    /\ result = "ok"
    /\ query' = <<number>>
    /\ answer' = TableContains(m_hash, m_data, m_cnt_buckets, number)
    /\ UNCHANGED <<gen, m_hash, m_data, m_cnt_buckets, numbers, result,
                   searches, heap, inits>>

\* FixedSet::~FixedSet(): delete m_hash, then the members are destroyed
\* (every InnerSet of m_data deletes its m_hash).
Destroy ==
    /\ Running
    /\ result' = "destroyed"
    /\ m_hash' = Deleted(m_hash)
    /\ m_data' = <<>>
    /\ heap' = [created |-> 0,
                deleted |-> Owned(m_hash, m_data),
                twice |-> IF m_hash.ptr = "dangling" THEN 1 ELSE 0,
                before |-> Owned(m_hash, m_data)]
    /\ numbers' = <<>>
    /\ searches' = <<>>
    /\ query' = NoQuery
    /\ answer' = NoAnswer
    /\ UNCHANGED <<gen, m_cnt_buckets, inits>>

Next ==
    \/ \E nums \in Inputs : Initialize(nums)
    \/ \E number \in Queries : Contains(number)
    \/ Destroy
    \/ DoubleDeleteAborts

Spec == Init /\ [][Next]_vars

----------------------------------------------------------------------------
\* Properties

\* What Contains(q) does on the table as it stands.
Con(q) == TableContains(m_hash, m_data, m_cnt_buckets, q)

\* The keys an InnerSet stores in its slots.
StoredKeys(set) ==
    {set.m_data[j][1] : j \in {k \in 1..Len(set.m_data) : set.m_data[k] # NullOpt}}

\* The slot of the InnerSet set that Contains(q) reads.
Slot(set, q) == GetHash(set.m_hash, q) % set.m_cnt_buckets

\* The InnerSet that Contains(q) selects.
Bucket(q) == m_data[(GetHash(m_hash, q) % m_cnt_buckets) + 1]

\* The key list InitBuckets passed to the Initialize of bucket i (the search
\* of bucket i follows the top-level search).
BucketKeys(i) == searches[i + 1].numbers

\* Whether GetHashFunction accepts the candidate h in the call c.
Accepts(c, h) ==
    IF c.level = "top"
    THEN Hu(h, c.numbers, c.cnt_buckets, FunSquare) <= c.criteria
    ELSE Hu(h, c.numbers, c.cnt_buckets, FunCollision) <= c.criteria

\* The engine's state g after k more outputs.
RECURSIVE Advance(_, _)
Advance(g, k) ==
    IF k = 0 THEN g ELSE Advance(Tail(g) \o <<Head(g)>>, k - 1)

\* C1: after an Initialize(S) that returned, Contains(k) returns true for
\* every k of S, whichever hash functions were accepted.
C1_MembersAreFound ==
    result = "ok" =>
        \A i \in 1..Len(numbers) : Con(numbers[i]) = Returned(TRUE)

\* C1 witness: three keys were stored, two of them in one bucket, and
\* Contains was asked for one of them.
C1_Witness ==
    /\ result = "ok"
    /\ Len(numbers) = 3
    /\ \E i \in 1..Len(m_data) : Cardinality(StoredKeys(m_data[i])) = 2
    /\ query # NoQuery
    /\ query[1] \in Range(numbers)
    /\ answer = Returned(TRUE)

\* C2: after an Initialize(S) that returned (S may be empty), Contains(q)
\* returns false for every int q that is not in S.
C2_NoFalsePositive ==
    result = "ok" =>
        \A q \in IntRange \ Range(numbers) : Con(q) = Returned(FALSE)

\* C2 witness: Contains was asked for a key outside S whose hash lands on
\* an occupied slot, and answered false.
C2_Witness ==
    /\ result = "ok"
    /\ query # NoQuery
    /\ query[1] \notin Range(numbers)
    /\ Bucket(query[1]).m_data[Slot(Bucket(query[1]), query[1]) + 1] # NullOpt
    /\ answer = Returned(FALSE)

\* C3: Initialize returns if and only if the top-level search and the
\* search of every bucket returned a hash; a search that threw is the last
\* one of the call and the call ends with BadHashFunction.
C3_ReturnsIffEverySearchFound ==
    result \in {"ok", "BadHashFunction"} =>
        /\ searches # <<>>
        /\ \A i \in 1..(Len(searches) - 1) : ~searches[i].thrown
        /\ result = "ok" <=>
              /\ Len(searches) = m_cnt_buckets + 1
              /\ \A i \in 1..Len(searches) : ~searches[i].thrown
        /\ result = "BadHashFunction" <=> searches[Len(searches)].thrown

\* C3 witness: the top-level search found a hash and the search of a later
\* bucket threw, after an earlier bucket had been built.
C3_Witness ==
    /\ result = "BadHashFunction"
    /\ Len(searches) >= 3
    /\ searches[Len(searches)].thrown

\* C4: after an Initialize that returned, Contains(q) fails for no int q:
\* the bucket counts are not zero and both indexes are inside their vectors.
C4_ContainsNeverFails ==
    result = "ok" =>
        /\ m_cnt_buckets # 0
        /\ Len(m_data) = m_cnt_buckets
        /\ \A i \in 1..Len(m_data) :
              /\ m_data[i].m_cnt_buckets # 0
              /\ Len(m_data[i].m_data) = m_data[i].m_cnt_buckets
        /\ \A q \in IntRange : Con(q).fault = "none"

\* C4 witness: Contains answered for the least int on a table of three keys.
C4_Witness ==
    /\ result = "ok"
    /\ Len(numbers) = 3
    /\ query = <<IntMin>>
    /\ answer.fault = "none"

\* C5: an Initialize(S) that returns on a table that was initialized before
\* leaves a table whose Contains(q) is true exactly for the q of S.
C5_Reinitialized ==
    (inits >= 2 /\ result = "ok") =>
        \A q \in IntRange : Con(q) = Returned(q \in Range(numbers))

\* C5 witness: the second Initialize returned on a table that held InnerSets
\* of an earlier one, and Contains was asked for a key afterwards.
C5_Witness ==
    /\ inits = 2
    /\ result = "ok"
    /\ heap.before >= 3
    /\ Len(numbers) = 2
    /\ query # NoQuery
    /\ answer = Returned(TRUE)

\* C6: every GetHashFunction call of an Initialize generates at most
\* RetryCeiling candidates, one at a time: all but the last are rejected,
\* it returns the last one exactly when that one is accepted, it throws
\* exactly when RetryCeiling candidates were rejected, and the engine has
\* produced the outputs of these candidates and no more.
C6_RetrySearch ==
    [][inits' = inits + 1 =>
        /\ \A i \in 1..Len(searches') :
              LET c == searches'[i]
              IN  /\ c.cnt_run = Len(c.tried)
                  /\ c.cnt_run \in 1..RetryCeiling
                  /\ \A k \in 1..(c.cnt_run - 1) : ~Accepts(c, c.tried[k])
                  /\ c.thrown <=> (/\ c.cnt_run = RetryCeiling
                                   /\ ~Accepts(c, c.tried[c.cnt_run]))
                  /\ ~c.thrown => c.hash = c.tried[c.cnt_run]
        /\ gen' = Advance(gen, (2 * Created(searches')) % Len(gen))]_vars

\* C6 witness: a search rejected candidates and then returned one, before
\* the ceiling.
C6_Witness ==
    \E i \in 1..Len(searches) :
        /\ ~searches[i].thrown
        /\ searches[i].cnt_run \in 2..(RetryCeiling - 1)

\* C7: after an Initialize that returned on N keys, bucket i holds exactly
\* the keys with hash(key) % bucket count = i, and the squared bucket sizes
\* sum to at most 2N.
C7_PartitionWithinBound ==
    result = "ok" =>
        /\ \A i \in 1..Len(m_data) :
              /\ StoredKeys(m_data[i]) =
                    {k \in Range(numbers) :
                        GetHash(m_hash, k) % m_cnt_buckets = i - 1}
              /\ Len(BucketKeys(i)) = Cardinality(StoredKeys(m_data[i]))
        /\ SumSeq([i \in 1..Len(m_data) |->
                      Len(BucketKeys(i)) * Len(BucketKeys(i))])
              <= 2 * Len(numbers)

\* C7 witness: three keys in buckets of sizes 2 and 1.
C7_Witness ==
    /\ result = "ok"
    /\ Len(numbers) = 3
    /\ \E i \in 1..Len(m_data) : Len(BucketKeys(i)) = 2

\* C8: the keys of an InnerSet that was initialized map to distinct slots
\* under its hash, and every occupied slot holds the one key that hashes
\* to it.
C8_NoCollision ==
    /\ \A i \in 1..Len(searches) :
          LET c == searches[i]
          IN  (c.level = "inner" /\ ~c.thrown) =>
                 \A a, b \in 1..Len(c.numbers) :
                    a # b => GetHash(c.hash, c.numbers[a]) % c.cnt_buckets
                             # GetHash(c.hash, c.numbers[b]) % c.cnt_buckets
    /\ result = "ok" =>
          \A i \in 1..Len(m_data) :
             /\ StoredKeys(m_data[i]) = Range(BucketKeys(i))
             /\ \A j \in 1..Len(m_data[i].m_data) :
                   m_data[i].m_data[j] # NullOpt =>
                      /\ Slot(m_data[i], m_data[i].m_data[j][1]) = j - 1
                      /\ \A k \in Range(BucketKeys(i)) :
                            Slot(m_data[i], k) = j - 1
                               => k = m_data[i].m_data[j][1]

\* C8 witness: an InnerSet of two keys whose search rejected a colliding
\* candidate first.
C8_Witness ==
    /\ result = "ok"
    /\ \E i \in 1..Len(m_data) :
          /\ Cardinality(StoredKeys(m_data[i])) = 2
          /\ searches[i + 1].cnt_run >= 2

\* C9: for every int x, GetHash(x) of a generated hash function is the
\* residue (a * x + b) mod p.
C9_AffineResidue ==
    m_hash.ptr = "live" =>
        /\ m_hash.coef \in 1..(kPrime - 1)
        /\ m_hash.bias \in 0..(kPrime - 1)
        /\ \A x \in IntRange :
              GetHash(m_hash, x) = (m_hash.coef * x + m_hash.bias) % kPrime

\* C10: every call releases each hash object exactly once: nothing is
\* deleted twice, and the objects created and not deleted are the ones the
\* table owns afterwards.
C10_ReleasedExactlyOnce ==
    /\ heap.twice = 0
    /\ heap.before + heap.created - heap.deleted = Owned(m_hash, m_data)

====
